---------------------------- MODULE Spec2Model ----------------------------
(***************************************************************************)
(* A model of the m3u8 downloader (src/src/lib.rs, src/src/cache.rs):      *)
(* variant selection in Downloader::load_m3u8, the cache decision and the  *)
(* bounded-concurrency segment batch of Downloader::download, the          *)
(* file-system steps of save_bytes and clean_dir, and                      *)
(* VideoUtil::merge_to and VideoUtil::clean_segment (src/src/video.rs) as  *)
(* main.rs calls them.                                                     *)
(***************************************************************************)
EXTENDS Integers, Sequences, FiniteSets, TLC

(***************************************************************************)
(* Bounds of the model.                                                    *)
(***************************************************************************)
MaxVariants == 3
MaxBandwidth == 2
MaxDim == 2
MaxSegs == 3
MaxConcurrency == 2
MaxRuns == 2
MaxSegsRerun == 2
MaxSegsChanged == 3
NChunks == 2
MaxSegsManifest == 2
MaxChain == 2
MaxChainVariants == 2

(***************************************************************************)
(* Variant selection: Iterator::max_by with the comparator of load_m3u8.   *)
(***************************************************************************)
NoRes == <<>>

\* Option<Resolution>: None (the empty tuple), or a (width, height) pair.
Resolutions == {NoRes} \cup {<<w, h>> : w \in 1..MaxDim, h \in {1}} \cup {<<1, MaxDim>>}

\* A VariantStream, reduced to the fields the comparator reads.
VariantSet == [resolution : Resolutions, bandwidth : 1..MaxBandwidth]

RECURSIVE SeqsUpTo(_, _)
SeqsUpTo(S, n) ==
    IF n = 0 THEN {<<>>}
    ELSE LET shorter == SeqsUpTo(S, n - 1)
         IN  shorter \cup {Append(s, x) : s \in {q \in shorter : Len(q) = n - 1}, x \in S}

\* u64::cmp
CmpNat(a, b) == IF a < b THEN "Less" ELSE IF a > b THEN "Greater" ELSE "Equal"

\* Resolution::cmp, the derived lexicographic order on (width, height).
CmpResolution(a, b) ==
    IF CmpNat(a[1], b[1]) # "Equal" THEN CmpNat(a[1], b[1]) ELSE CmpNat(a[2], b[2])

\* The closure given to max_by: resolution when both declare one, else bandwidth.
\* (The frame-rate branch has an empty body.)
CompareVariants(a, b) ==
    IF a.resolution # NoRes /\ b.resolution # NoRes
    THEN CmpResolution(a.resolution, b.resolution)
    ELSE CmpNat(a.bandwidth, b.bandwidth)

\* Iterator::max_by: a left fold that keeps the current maximum only when
\* it compares Greater, so the last of several maxima is returned. The
\* result is the index of the chosen variant, 0 for an empty list (None).
RECURSIVE MaxByFrom(_, _, _)
MaxByFrom(vs, best, i) ==
    IF i > Len(vs) THEN best
    ELSE MaxByFrom(vs, IF CompareVariants(vs[best], vs[i]) = "Greater" THEN best ELSE i, i + 1)

MaxBy(vs) == IF Len(vs) = 0 THEN 0 ELSE MaxByFrom(vs, 1, 2)

\* selected is <<>> before the choice and <<i>> after it (i = 0: None).
Pending == <<>>

(***************************************************************************)
(* URIs, paths and file contents.                                          *)
(* A URI or path is the sequence of its "/"-separated components.  An      *)
(* Option is <<>> (None) or <<x>> (Some(x)).                               *)
(***************************************************************************)
Target == <<"http:", "h", "v.m3u8">>

\* Segment URIs as they appear in a playlist: a relative one, a relative one
\* in a sub-directory with the same file name, and an absolute one.
SegURIs == {<<"1.ts">>, <<"a", "1.ts">>, <<"http:", "cdn", "2.ts">>}

KeyURIs == {<<"k.key">>}

NoKey == <<>>

\* A MediaSegment, reduced to its URI and the URI of its key, if any.
SegmentSet == [uri : SegURIs, key : {NoKey} \cup {<<k>> : k \in KeyURIs}]

\* Media playlists of at most n segments.  A key tag is attached to the
\* segment that follows it; here only the first segment may carry one.
Playlists(n) ==
    {p \in SeqsUpTo(SegmentSet, n) : \A i \in 2..Len(p) : p[i].key = NoKey}

\* Media playlists of at most n segments in which a segment URI may hold a
\* character that a URL percent-encodes, and any segment may carry a key
\* tag (key rotation).
RichPlaylists(n) ==
    SeqsUpTo([uri : SegURIs \cup {<<"s 3.ts">>}, key : {NoKey} \cup {<<k>> : k \in KeyURIs}], n)

\* The playlists served to repeated invocations: at most MaxSegsRerun
\* segments, whose URIs are "1.ts" or that of the other host.
RerunPlaylists ==
    {p \in Playlists(MaxSegsRerun) :
        \A i \in 1..Len(p) : p[i].uri \in {<<"1.ts">>, <<"http:", "cdn", "2.ts">>}}

\* What the server may serve at the next invocation after pl: the same
\* playlist, or one that differs from it in its last segment (replaced,
\* removed, or a segment added) and holds, together with pl, at most
\* MaxSegsChanged segments.
Versions(pl) ==
    {q \in RerunPlaylists :
        \/ q = pl
        \/ /\ Len(pl) + Len(q) <= MaxSegsChanged
           /\ \/ /\ Len(q) = Len(pl)
                 /\ \A i \in 1..(Len(pl) - 1) : q[i] = pl[i]
              \/ /\ Len(q) = Len(pl) + 1
                 /\ \A i \in 1..Len(pl) : q[i] = pl[i]
              \/ /\ Len(q) + 1 = Len(pl)
                 /\ \A i \in 1..Len(q) : q[i] = pl[i]}

\* basename: the last component of the path (Path::file_name).
Basename(uri) == uri[Len(uri)]

\* The percent-encoding Url::join applies to a path component: a space
\* becomes %20; the other components used here have nothing to encode.
UrlEncode(c) == IF c = "s 3.ts" THEN "s%203.ts" ELSE c

\* Url::join for the relative references used here: the base without its
\* last component, followed by the percent-encoded reference.
UrlJoin(base, ref) ==
    SubSeq(base, 1, Len(base) - 1) \o [i \in 1..Len(ref) |-> UrlEncode(ref[i])]

\* M3U8MediaPlaylist::format_url
FormatUrl(base, uri) ==
    IF uri[1] = "http:" THEN uri
    ELSE IF base # <<>> THEN UrlJoin(base[1], uri)
    ELSE uri

\* M3U8MediaPlaylist::segments
SegmentUrls(base, pl) == [i \in 1..Len(pl) |-> FormatUrl(base, pl[i].uri)]

\* M3U8MediaPlaylist::key
KeyUrl(base, pl) ==
    IF Len(pl) > 0 /\ pl[1].key # NoKey THEN <<FormatUrl(base, pl[1].key[1])>> ELSE <<>>

\* The hex MD5 of the playlist bytes; distinct bytes give distinct sums here.
Md5(bytes) == <<"md5", bytes>>

\* save_dir.join(name)
SavePath(uri) == <<Basename(uri)>>

\* save_bytes: the sibling path with ".writing" pushed onto it.
WritingPath(path) == Append(path, ".writing")

RecordPath == <<"record.json">>

IndexPath == <<"index.m3u8">>

\* The bytes served for a URI, as NChunks chunks; chunk k of uri is <<k, uri>>.
Bytes(uri) == {<<k, uri>> : k \in 1..NChunks}

\* DownloadRecord as serialized to record.json.
RecordOf(sum) == [target |-> Target, headers |-> <<>>, m3u8_sum |-> sum]

\* The manifest written by write_to_file: every segment URI and key URI
\* replaced by its basename, in playlist order.
Manifest(pl) ==
    [i \in 1..Len(pl) |->
        [uri |-> Basename(pl[i].uri),
         key |-> IF pl[i].key = NoKey THEN NoKey ELSE <<Basename(pl[i].key[1])>>]]

(***************************************************************************)
(* File system of the destination directory: a function from the paths     *)
(* that exist to files [id, data].  The id is the inode: a rename moves    *)
(* it, and a write through an open descriptor reaches it wherever it is.   *)
(***************************************************************************)
EmptyDir == <<>>

Exists(d, path) == path \in DOMAIN d

PutFile(d, path, file) ==
    [q \in DOMAIN d \cup {path} |-> IF q = path THEN file ELSE d[q]]

RemoveFile(d, path) == [q \in DOMAIN d \ {path} |-> d[q]]

\* File::create: truncate the file at path, or create a new inode there.
CreateFile(d, path, newId, empty) ==
    IF Exists(d, path)
    THEN PutFile(d, path, [id |-> d[path].id, data |-> empty])
    ELSE PutFile(d, path, [id |-> newId, data |-> empty])

\* The file data after chunk k of uri has been written at its position.
WithChunk(data, k, uri) == {c \in data : c[1] # k} \cup {<<k, uri>>}

\* write through a descriptor: chunk k of uri goes to the inode id, at
\* whatever path it now is.
WriteInode(d, id, k, uri) ==
    [q \in DOMAIN d |->
        IF d[q].id = id THEN [id |-> id, data |-> WithChunk(d[q].data, k, uri)] ELSE d[q]]

\* fs::rename(from, to); the caller has checked that from exists.
RenameFile(d, from, to) == RemoveFile(PutFile(d, to, d[from]), from)

(***************************************************************************)
(* State.                                                                  *)
(*   variants, selected : the input and result of variant selection        *)
(*   ld          : the locals of load_m3u8 (uri, result), with the URLs    *)
(*                 fetched and the playlists received so far, the number   *)
(*                 of set_base_url calls, and what it returned             *)
(*   remote      : the media playlist the server currently serves          *)
(*   conc        : max_download_concurrency                                *)
(*   builder     : DownloaderBuilder.inner: "ok", or "err" once a setter   *)
(*                 or the constructor has failed                           *)
(*   run, cpc    : the invocation number and the position of               *)
(*                 Downloader::download in it                              *)
(*   cs          : main after download: not gone on, in merge_to, merged,  *)
(*                 the manifest and loop position of clean_segment, or    *)
(*                 how main ended                                          *)
(*   ff          : per run, the ffmpeg process merge_to has started: not   *)
(*                 started or gone, started, with its output file open,    *)
(*                 or exited with a status its parent has not yet read     *)
(*   media, base : the resolved playlist and its base URL                  *)
(*   dirExists, dir : the destination directory                            *)
(*   upc, ures, fd, off : per download unit (0: the key, i: segment i):    *)
(*                 position, returned value, open descriptor, chunks       *)
(*                 written                                                 *)
(*   permits, closed : the semaphore                                       *)
(*   joinq, joined : the JoinSet: the tasks marked finished, in that order, *)
(*                 and how many of them join_next has handed out           *)
(*   pb          : the progress bar position                               *)
(*   result      : what download returned                                  *)
(* History, read by the properties only:                                   *)
(*   mode        : "hit" or "miss" once the record has been compared; on  *)
(*                 a miss, "kept" once the removal of clean_dir has        *)
(*                 failed and left entries in the directory, "wiped" once  *)
(*                 clean_dir has returned after a removal that left none   *)
(*   past        : the record of this run's checksum is on disk            *)
(*   fetched     : the units that issued a fetch in this run               *)
(*   snap        : the directory as it was when this run started           *)
(*   prev        : how the previous run ended                              *)
(*   waitAtFail  : the units not yet holding a permit when the first unit   *)
(*                 failed                                                  *)
(*   atClose     : the units holding a permit, and those still waiting for *)
(*                 one, when the pool was closed                           *)
(***************************************************************************)
VARIABLES variants, selected, ld, remote, conc, run, builder, cs, ff, cpc,
          media, base,
          dirExists, dir, upc, ures, fd, off, permits, closed, joinq, joined,
          pb, result, mode, past, fetched, snap, prev, waitAtFail, atClose

selVars == <<variants, selected, ld>>

\* What an invocation of Downloader::download leaves alone.
confVars == <<remote, conc, run, builder, cs, ff>>

unitVars == <<upc, ures, fd, off>>

semVars == <<permits, closed>>

joinVars == <<joinq, joined>>

histVars == <<mode, past, fetched, snap, prev, waitAtFail, atClose>>

vars == <<variants, selected, ld, remote, conc, run, builder, cs, ff, cpc,
          media, base,
          dirExists, dir, upc, ures, fd, off, permits, closed, joinq, joined,
          pb, result, mode, past, fetched, snap, prev, waitAtFail, atClose>>

Units == 0..MaxSegs

KeyUnit == 0

RecordInode == MaxSegs + 1

IndexInode == MaxSegs + 2

OutputInode == MaxSegs + 3

\* The merge output of "-m", when it is given as a file of the destination
\* directory.
OutputPath == <<"out.mp4">>

SegUnits == 1..Len(media)

\* The URI a unit downloads.
UnitUri(u) == IF u = KeyUnit THEN KeyUrl(base, media)[1] ELSE SegmentUrls(base, media)[u]

FinalPath(u) == SavePath(UnitUri(u))

TempPath(u) == WritingPath(FinalPath(u))

NoResult == [st |-> "none", unit |-> 0]

\* load_m3u8 at its entry: uri is the target and result is None.
LoadEntry ==
    [pc |-> "loop", uri |-> Target, res |-> <<>>, fetches |-> <<>>, resps |-> <<>>,
     nbase |-> 0, out |-> [st |-> "none"]]

\* main has not gone on from download: neither merge_to nor clean_segment
\* has been called.
NoClean == [st |-> "idle"]

\* No ffmpeg has been started, or it is gone.
NoFfmpeg == [st |-> "none"]

NoProcesses == [r \in 1..MaxRuns |-> NoFfmpeg]

\* The values of one invocation before it has done anything.
FreshProcess ==
    /\ ld = LoadEntry
    /\ cs = NoClean
    /\ ff = NoProcesses
    /\ cpc = "load"
    /\ media = <<>>
    /\ base = <<>>
    /\ upc = [u \in Units |-> "idle"]
    /\ ures = [u \in Units |-> "none"]
    /\ fd = [u \in Units |-> <<>>]
    /\ off = [u \in Units |-> 0]
    /\ permits = 0
    /\ closed = FALSE
    /\ joinq = <<>>
    /\ joined = 0
    /\ pb = 0
    /\ result = NoResult
    /\ mode = "none"
    /\ past = FALSE
    /\ fetched = {}
    /\ waitAtFail = <<>>
    /\ atClose = <<>>

(***************************************************************************)
(* Downloader::download, the coordinator.                                  *)
(***************************************************************************)
Running == cpc \notin {"ok", "err", "crashed", "main_ret"}

\* A mutant of RecordMatches: the record is compared with the target URL
\* instead of the checksum, so it never matches.
RecordMatchesTarget(d, sum) ==
    /\ Exists(d, RecordPath)
    /\ d[RecordPath].data # <<>>
    /\ d[RecordPath].data[1].target = sum

\* DownloadRecord::load followed by the guard of the match arm: the record
\* file opens, parses, and carries the checksum of the resolved playlist.
RecordMatches(d, sum) ==
    /\ Exists(d, RecordPath)
    /\ d[RecordPath].data # <<>>
    /\ d[RecordPath].data[1].m3u8_sum = sum

\* lib.rs 272, load_m3u8 succeeding: the playlist is fetched and parsed, its
\* base URL is the URL it was fetched from.
LoadOk ==
    /\ cpc = "load"
    /\ media' = remote
    /\ base' = <<Target>>
    /\ cpc' = "mkdir"
    /\ UNCHANGED <<selVars, confVars, dirExists, dir, unitVars, semVars, joinVars,
                   pb, result, histVars>>

\* lib.rs 272, load_m3u8 failing: the error is returned by "?".
LoadErr ==
    /\ cpc = "load"
    /\ cpc' = "err"
    /\ result' = [st |-> "load_err", unit |-> 0]
    /\ UNCHANGED <<selVars, confVars, media, base, dirExists, dir, unitVars, semVars,
                   joinVars, pb, histVars>>

\* lib.rs 273, create_dir_all.
MakeDir ==
    /\ cpc = "mkdir"
    /\ dirExists' = TRUE
    /\ cpc' = "cache"
    /\ UNCHANGED <<selVars, confVars, media, base, dir, unitVars, semVars, joinVars,
                   pb, result, histVars>>

\* lib.rs 275-277, the match on DownloadRecord::load.
CacheCheck ==
    /\ cpc = "cache"
    /\ IF RecordMatches(dir, Md5(media))
       THEN /\ cpc' = "key"
            /\ mode' = "hit"
            /\ past' = TRUE
       ELSE /\ cpc' = "wipe"
            /\ mode' = "miss"
            /\ past' = FALSE
    /\ UNCHANGED <<selVars, confVars, media, base, dirExists, dir, unitVars, semVars,
                   joinVars, pb, result, fetched, snap, prev, waitAtFail, atClose>>

\* lib.rs 30, remove_dir_all: one entry of the directory is unlinked.  The
\* entries come in the order of read_dir, which is any order.
CleanDirUnlink ==
    /\ cpc = "wipe"
    /\ \E p \in DOMAIN dir : dir' = RemoveFile(dir, p)
    /\ UNCHANGED <<selVars, remote, conc, run, builder, cs, ff, cpc, media, base,
                   dirExists, unitVars, semVars, joinVars, pb, result, histVars>>

\* lib.rs 30, remove_dir_all: the emptied directory is removed.
CleanDirRmdir ==
    /\ cpc = "wipe"
    /\ DOMAIN dir = {}
    /\ dirExists' = FALSE
    /\ cpc' = "wipe_mkdir"
    /\ UNCHANGED <<selVars, remote, conc, run, builder, cs, ff, media, base, dir,
                   unitVars, semVars, joinVars, pb, result, histVars>>

\* lib.rs 30, "let _ = fs::remove_dir_all(&path)": remove_dir_all fails and
\* returns at that point: before it has unlinked anything, on an entry it
\* cannot unlink after it has unlinked others, or at the removal of the
\* directory itself, which may be empty, or hold a file created after its
\* entries were read.  What has been unlinked is gone, the rest and the
\* directory stay.  The error is dropped and clean_dir goes on to
\* create_dir_all.
CleanDirFail ==
    /\ cpc = "wipe"
    /\ cpc' = "wipe_mkdir"
    /\ mode' = IF DOMAIN dir = {} THEN mode ELSE "kept"
    /\ UNCHANGED <<selVars, remote, conc, run, builder, cs, ff, media, base,
                   dirExists, dir, unitVars, semVars, joinVars, pb, result, past,
                   fetched, snap, prev, waitAtFail, atClose>>

\* lib.rs 31, create_dir_all: the directory is created again, or found to
\* exist when the removal failed.
CleanDirMkdir ==
    /\ cpc = "wipe_mkdir"
    /\ dirExists' = TRUE
    /\ cpc' = "rec_create"
    /\ mode' = IF mode = "kept" THEN "kept" ELSE "wiped"
    /\ UNCHANGED <<selVars, confVars, media, base, dir, unitVars, semVars, joinVars,
                   pb, result, past, fetched, snap, prev, waitAtFail, atClose>>

\* lib.rs 282 and 26-32, clean_dir, one file-system call per step.
CleanDir ==
    \/ CleanDirUnlink
    \/ CleanDirRmdir
    \/ CleanDirFail
    \/ CleanDirMkdir

\* cache.rs 30, File::create(record.json).
RecordCreate ==
    /\ cpc = "rec_create"
    /\ dir' = CreateFile(dir, RecordPath, <<run, RecordInode>>, <<>>)
    /\ cpc' = "rec_write"
    /\ UNCHANGED <<selVars, confVars, media, base, dirExists, unitVars, semVars,
                   joinVars, pb, result, histVars>>

\* A mutant of RecordWrite: the record file is created but nothing is
\* serialized into it.
RecordWriteNothing ==
    /\ cpc = "rec_write"
    /\ cpc' = "key"
    /\ past' = TRUE
    /\ UNCHANGED <<selVars, confVars, media, base, dirExists, dir, unitVars, semVars,
                   joinVars, pb, result, mode, fetched, snap, prev, waitAtFail,
                   atClose>>

\* cache.rs 32, to_writer_pretty.
RecordWrite ==
    /\ cpc = "rec_write"
    /\ dir' = PutFile(dir, RecordPath,
                      [id |-> dir[RecordPath].id, data |-> <<RecordOf(Md5(media))>>])
    /\ cpc' = "key"
    /\ past' = TRUE
    /\ UNCHANGED <<selVars, confVars, media, base, dirExists, unitVars, semVars,
                   joinVars, pb, result, mode, fetched, snap, prev, waitAtFail,
                   atClose>>

\* lib.rs 297-298: the key, when the first segment names one, is downloaded
\* by the coordinator itself.
KeyStart ==
    /\ cpc = "key"
    /\ IF KeyUrl(base, media) = <<>>
       THEN /\ cpc' = "spawn"
            /\ upc' = upc
       ELSE /\ cpc' = "keywait"
            /\ upc' = [upc EXCEPT ![KeyUnit] = "check"]
    /\ UNCHANGED <<selVars, confVars, media, base, dirExists, dir, ures, fd, off,
                   semVars, joinVars, pb, result, histVars>>

\* A mutant of KeyDone: the result of the key download is not looked at.
KeyDoneIgnoresErr ==
    /\ cpc = "keywait"
    /\ upc[KeyUnit] = "ret"
    /\ cpc' = "spawn"
    /\ UNCHANGED <<selVars, confVars, media, base, dirExists, dir, unitVars, semVars,
                   joinVars, pb, result, histVars>>

\* lib.rs 298: the "?" on the key download.
KeyDone ==
    /\ cpc = "keywait"
    /\ upc[KeyUnit] = "ret"
    /\ IF ures[KeyUnit] = "ok"
       THEN /\ cpc' = "spawn"
            /\ result' = result
       ELSE /\ cpc' = "err"
            /\ result' = [st |-> "err", unit |-> KeyUnit]
    /\ UNCHANGED <<selVars, confVars, media, base, dirExists, dir, unitVars, semVars,
                   joinVars, pb, histVars>>

\* lib.rs 302-337: the semaphore is created with conc permits and one task
\* per segment is spawned.
Spawn ==
    /\ cpc = "spawn"
    /\ permits' = conc
    /\ closed' = FALSE
    /\ upc' = [u \in Units |-> IF u \in SegUnits THEN "wait" ELSE upc[u]]
    /\ cpc' = "join"
    /\ UNCHANGED <<selVars, confVars, media, base, dirExists, dir, ures, fd, off,
                   joinVars, pb, result, histVars>>

\* A mutant of JoinNext: a task's error is dropped and the loop goes on.
JoinNextIgnoresErr ==
    /\ cpc = "join"
    /\ joined < Len(joinq)
    /\ joined' = joined + 1
    /\ UNCHANGED <<selVars, confVars, cpc, media, base, dirExists, dir, unitVars,
                   semVars, joinq, pb, result, histVars>>

\* lib.rs 339-341: join_next hands out the next finished task.
JoinNext ==
    /\ cpc = "join"
    /\ joined < Len(joinq)
    /\ joined' = joined + 1
    /\ IF ures[joinq[joined + 1]] = "err"
       THEN /\ cpc' = "close"
            /\ result' = [st |-> "pending_err", unit |-> joinq[joined + 1]]
       ELSE /\ cpc' = cpc
            /\ result' = result
    /\ UNCHANGED <<selVars, confVars, media, base, dirExists, dir, unitVars, semVars,
                   joinq, pb, histVars>>

\* lib.rs 339: join_next returns None once every task has been handed out.
JoinEmpty ==
    /\ cpc = "join"
    /\ joined = Len(media)
    /\ cpc' = "idx_create"
    /\ UNCHANGED <<selVars, confVars, media, base, dirExists, dir, unitVars, semVars,
                   joinVars, pb, result, histVars>>

InFlight(u) == upc[u] \in {"check", "fetch", "create", "write", "sync", "rename"}

\* lib.rs 342-343: pb.abandon(); sem.close().
ClosePool ==
    /\ cpc = "close"
    /\ closed' = TRUE
    /\ cpc' = "ret_err"
    /\ atClose' = <<[held |-> {u \in SegUnits : InFlight(u)},
                     waiting |-> {u \in SegUnits : upc[u] = "wait"}]>>
    /\ UNCHANGED <<selVars, confVars, media, base, dirExists, dir, unitVars, permits,
                   joinVars, pb, result, mode, past, fetched, snap, prev, waitAtFail>>

\* A task is cancelled where it is suspended: at acquire or at the fetch.
Suspended(u) == upc[u] \in {"wait", "fetch"}

\* lib.rs 344: return Err(e).  The JoinSet is dropped, which aborts every task
\* still suspended at an await; a cancelled task drops its permit.
ReturnErr ==
    /\ cpc = "ret_err"
    /\ cpc' = "err"
    /\ result' = [st |-> "err", unit |-> result.unit]
    /\ upc' = [u \in Units |-> IF u \in SegUnits /\ Suspended(u) THEN "abort" ELSE upc[u]]
    /\ permits' = permits + Cardinality({u \in SegUnits : upc[u] = "fetch"})
    /\ UNCHANGED <<selVars, confVars, media, base, dirExists, dir, ures, fd, off,
                   closed, joinVars, pb, histVars>>

\* lib.rs 416, File::create of the local manifest.
IndexCreate ==
    /\ cpc = "idx_create"
    /\ dir' = CreateFile(dir, IndexPath, <<run, IndexInode>>, <<>>)
    /\ cpc' = "idx_write"
    /\ UNCHANGED <<selVars, confVars, media, base, dirExists, unitVars, semVars,
                   joinVars, pb, result, histVars>>

\* lib.rs 418-429 and 352: the rewritten manifest is written and synced, and
\* download returns Ok.
IndexWrite ==
    /\ cpc = "idx_write"
    /\ dir' = PutFile(dir, IndexPath,
                      [id |-> dir[IndexPath].id, data |-> <<Manifest(media)>>])
    /\ cpc' = "ok"
    /\ result' = [st |-> "ok", unit |-> 0]
    /\ UNCHANGED <<selVars, confVars, media, base, dirExists, unitVars, semVars,
                   joinVars, pb, histVars>>

(***************************************************************************)
(* A download unit: the task body of lib.rs 321-335 around                 *)
(* download_m3u8_part (lib.rs 253-262) and save_bytes (lib.rs 34-49).      *)
(* The key unit runs download_m3u8_part only: no permit, no JoinSet.       *)
(***************************************************************************)
\* A mutant of Return: the task keeps its permit when it returns.
ReturnKeepsPermit(u, r) ==
    /\ upc' = [upc EXCEPT ![u] = IF u = KeyUnit THEN "ret" ELSE "exit"]
    /\ ures' = [ures EXCEPT ![u] = r]
    /\ permits' = permits
    /\ pb' = IF u # KeyUnit /\ r = "ok" THEN pb + 1 ELSE pb
    /\ waitAtFail' = IF u # KeyUnit /\ r = "err" /\ waitAtFail = <<>>
                     THEN <<{v \in SegUnits : upc[v] = "wait"}>>
                     ELSE waitAtFail

\* A mutant of Return: the progress bar is advanced whatever the task returns.
ReturnCountsAll(u, r) ==
    /\ upc' = [upc EXCEPT ![u] = IF u = KeyUnit THEN "ret" ELSE "exit"]
    /\ ures' = [ures EXCEPT ![u] = r]
    /\ permits' = IF u = KeyUnit THEN permits ELSE permits + 1
    /\ pb' = IF u # KeyUnit THEN pb + 1 ELSE pb
    /\ waitAtFail' = IF u # KeyUnit /\ r = "err" /\ waitAtFail = <<>>
                     THEN <<{v \in SegUnits : upc[v] = "wait"}>>
                     ELSE waitAtFail

\* A unit returns r: it has advanced the progress bar if r is "ok", and a
\* task drops its permit.  The task is not yet marked finished.
Return(u, r) ==
    /\ upc' = [upc EXCEPT ![u] = IF u = KeyUnit THEN "ret" ELSE "exit"]
    /\ ures' = [ures EXCEPT ![u] = r]
    /\ permits' = IF u = KeyUnit THEN permits ELSE permits + 1
    /\ pb' = IF u # KeyUnit /\ r = "ok" THEN pb + 1 ELSE pb
    /\ waitAtFail' = IF u # KeyUnit /\ r = "err" /\ waitAtFail = <<>>
                     THEN <<{v \in SegUnits : upc[v] = "wait"}>>
                     ELSE waitAtFail

\* A mutant of CanAcquire: the semaphore hands out permits it does not have.
CanAcquireUnbounded == ~closed

\* A mutant of CanAcquire: a pool of no permits hands one out.
CanAcquireAtZero == ~closed /\ permits >= 0

\* A mutant of CanAcquire: a closed semaphore still hands out permits.
CanAcquireWhenClosed == permits > 0

\* Semaphore::acquire resolves to a permit: the pool is open and has one.
CanAcquire == ~closed /\ permits > 0

\* lib.rs 321-335, the end of the task: the future has completed and the
\* JoinSet marks the task finished, so that join_next can hand it out.
Finish(u) ==
    /\ u # KeyUnit
    /\ upc[u] = "exit"
    /\ upc' = [upc EXCEPT ![u] = "ret"]
    /\ joinq' = Append(joinq, u)
    /\ UNCHANGED <<selVars, confVars, cpc, media, base, dirExists, dir, ures, fd, off,
                   semVars, joined, pb, result, histVars>>

\* lib.rs 322: sem.acquire().await gives a permit.
Acquire(u) ==
    /\ upc[u] = "wait"
    /\ CanAcquire
    /\ permits' = permits - 1
    /\ upc' = [upc EXCEPT ![u] = "check"]
    /\ UNCHANGED <<selVars, confVars, cpc, media, base, dirExists, dir, ures, fd, off,
                   closed, joinVars, pb, result, histVars>>

\* A mutant of AcquireClosed: the task does not test permit.is_err() and goes
\* on to download.
AcquireClosedProceeds(u) ==
    /\ upc[u] = "wait"
    /\ closed
    /\ upc' = [upc EXCEPT ![u] = "check"]
    /\ UNCHANGED <<selVars, confVars, cpc, media, base, dirExists, dir, ures, fd, off,
                   semVars, joinVars, pb, result, histVars>>

\* lib.rs 322-325: sem.acquire().await gives Err on a closed pool and the
\* task returns Ok(()) without touching the progress bar.
AcquireClosed(u) ==
    /\ upc[u] = "wait"
    /\ closed
    /\ upc' = [upc EXCEPT ![u] = "ret"]
    /\ ures' = [ures EXCEPT ![u] = "closed"]
    /\ joinq' = Append(joinq, u)
    /\ UNCHANGED <<selVars, confVars, cpc, media, base, dirExists, dir, fd, off,
                   semVars, joined, pb, result, histVars>>

\* lib.rs 254-258: the file exists, the unit returns Ok at once.
CheckExists(u) ==
    /\ upc[u] = "check"
    /\ Exists(dir, FinalPath(u))
    /\ Return(u, "ok")
    /\ UNCHANGED <<selVars, confVars, cpc, media, base, dirExists, dir, fd, off,
                   closed, joinVars, result, mode, past, fetched, snap, prev, atClose>>

\* A mutant of CheckMissing: the request is sent without looking at the
\* destination path.
CheckMissingAlways(u) ==
    /\ upc[u] = "check"
    /\ upc' = [upc EXCEPT ![u] = "fetch"]
    /\ fetched' = fetched \cup {u}
    /\ UNCHANGED <<selVars, confVars, cpc, media, base, dirExists, dir, ures, fd, off,
                   semVars, joinVars, pb, result, mode, past, snap, prev, waitAtFail,
                   atClose>>

\* lib.rs 254-260: the file is missing, the request is sent.
CheckMissing(u) ==
    /\ upc[u] = "check"
    /\ ~Exists(dir, FinalPath(u))
    /\ upc' = [upc EXCEPT ![u] = "fetch"]
    /\ fetched' = fetched \cup {u}
    /\ UNCHANGED <<selVars, confVars, cpc, media, base, dirExists, dir, ures, fd, off,
                   semVars, joinVars, pb, result, mode, past, snap, prev, waitAtFail,
                   atClose>>

\* download has returned the error of a segment task: the JoinSet has been
\* dropped and every task it held is aborted.
JoinSetDropped == cpc = "err" /\ result.st = "err" /\ result.unit # KeyUnit

\* An aborted task that was running when the JoinSet was dropped goes on to
\* its next await, the request, and is cancelled there.
Cancel(u) ==
    /\ u # KeyUnit
    /\ upc[u] = "fetch"
    /\ JoinSetDropped
    /\ upc' = [upc EXCEPT ![u] = "abort"]
    /\ permits' = permits + 1
    /\ UNCHANGED <<selVars, confVars, cpc, media, base, dirExists, dir, ures, fd, off,
                   closed, joinVars, pb, result, histVars>>

\* lib.rs 260: the response body arrives.
FetchOk(u) ==
    /\ upc[u] = "fetch"
    /\ ~JoinSetDropped
    /\ upc' = [upc EXCEPT ![u] = "create"]
    /\ UNCHANGED <<selVars, confVars, cpc, media, base, dirExists, dir, ures, fd, off,
                   semVars, joinVars, pb, result, histVars>>

\* lib.rs 260: send or bytes fails, the unit returns the error.
FetchErr(u) ==
    /\ upc[u] = "fetch"
    /\ ~JoinSetDropped
    /\ Return(u, "err")
    /\ UNCHANGED <<selVars, confVars, cpc, media, base, dirExists, dir, fd, off,
                   closed, joinVars, result, mode, past, fetched, snap, prev, atClose>>

\* lib.rs 38-41: File::create on the ".writing" path.
CreateTemp(u) ==
    /\ upc[u] = "create"
    /\ dir' = CreateFile(dir, TempPath(u), <<run, u>>, {})
    /\ fd' = [fd EXCEPT ![u] = <<dir'[TempPath(u)].id>>]
    /\ off' = [off EXCEPT ![u] = 0]
    /\ upc' = [upc EXCEPT ![u] = "write"]
    /\ UNCHANGED <<selVars, confVars, cpc, media, base, dirExists, ures,
                   semVars, joinVars, pb, result, histVars>>

\* lib.rs 42: write_all, one chunk per step, through the open descriptor.
WriteChunk(u) ==
    /\ upc[u] = "write"
    /\ off[u] < NChunks
    /\ dir' = WriteInode(dir, fd[u][1], off[u] + 1, UnitUri(u))
    /\ off' = [off EXCEPT ![u] = off[u] + 1]
    /\ upc' = [upc EXCEPT ![u] = IF off[u] + 1 = NChunks THEN "sync" ELSE "write"]
    /\ UNCHANGED <<selVars, confVars, cpc, media, base, dirExists, ures, fd,
                   semVars, joinVars, pb, result, histVars>>

\* lib.rs 43-44: sync_all, and the descriptor is closed.
SyncTemp(u) ==
    /\ upc[u] = "sync"
    /\ upc' = [upc EXCEPT ![u] = "rename"]
    /\ fd' = [fd EXCEPT ![u] = <<>>]
    /\ UNCHANGED <<selVars, confVars, cpc, media, base, dirExists, dir, ures, off,
                   semVars, joinVars, pb, result, histVars>>

\* lib.rs 46-48: the rename succeeds and the unit returns Ok.
RenameOk(u) ==
    /\ upc[u] = "rename"
    /\ Exists(dir, TempPath(u))
    /\ dir' = RenameFile(dir, TempPath(u), FinalPath(u))
    /\ Return(u, "ok")
    /\ UNCHANGED <<selVars, confVars, cpc, media, base, dirExists, fd, off,
                   closed, joinVars, result, mode, past, fetched, snap, prev, atClose>>

\* lib.rs 46: the ".writing" path is gone (another unit renamed it), the
\* rename fails and the unit returns the error.
RenameErr(u) ==
    /\ upc[u] = "rename"
    /\ ~Exists(dir, TempPath(u))
    /\ Return(u, "err")
    /\ UNCHANGED <<selVars, confVars, cpc, media, base, dirExists, dir, fd, off,
                   closed, joinVars, result, mode, past, fetched, snap, prev, atClose>>

(***************************************************************************)
(* The process and its environment.                                        *)
(***************************************************************************)
\* video.rs 106-114: where the loop of clean_segment goes after the remove
\* at (i, part): to the key of segment i if it has one, to the next
\* segment, or to Ok(()).
CleanAfter(m, i, part) ==
    IF part = "seg" /\ m[i].key # NoKey
    THEN [st |-> "run", m |-> m, i |-> i, part |-> "key"]
    ELSE IF i < Len(m)
         THEN [st |-> "run", m |-> m, i |-> i + 1, part |-> "seg"]
         ELSE [st |-> "ok"]

\* video.rs 93-99, remove: the path of the name at the position c, which is
\* relative and so joined to the directory of the manifest.
CleanPath(c) == IF c.part = "seg" THEN <<c.m[c.i].uri>> ELSE <<c.m[c.i].key[1]>>

\* main.rs 68-69 and video.rs 35-53: download has returned Ok, a merge is
\* asked for, and cmd.output() starts ffmpeg as a child process and waits
\* for it.  The output path lies in the destination directory or somewhere
\* else.
MergeStart ==
    /\ cpc = "ok"
    /\ cs = NoClean
    /\ ff[run] = NoFfmpeg
    /\ \E inside \in BOOLEAN :
          ff' = [ff EXCEPT ![run] = [st |-> "start", inside |-> inside]]
    /\ cs' = [st |-> "merging"]
    /\ cpc' = "merge"
    /\ UNCHANGED <<selVars, remote, conc, run, builder, media, base,
                   dirExists, dir, unitVars, semVars, joinVars, pb, result, histVars>>

\* video.rs 53: main is in cmd.output() for the ffmpeg of run r.
Waited(r) == r = run /\ cpc = "merge"

\* The ffmpeg of run r has ended with success: its status is kept for a
\* parent that waits for it, and nothing is kept of a child whose parent is
\* gone.
Exited(r) == IF Waited(r) THEN [st |-> "exit", ok |-> TRUE] ELSE NoFfmpeg

\* video.rs 39-47, the ffmpeg started there, as a process of its own that
\* goes on when main is terminated: it opens its output file in the
\* destination directory, creating it or truncating the one that is there.
FfmpegCreate(r) ==
    /\ ff[r].st = "start"
    /\ ff[r].inside
    /\ dirExists
    /\ dir' = CreateFile(dir, OutputPath, <<r, OutputInode>>, <<>>)
    /\ ff' = [ff EXCEPT ![r] = [st |-> "open", id |-> dir'[OutputPath].id]]
    /\ UNCHANGED <<selVars, remote, conc, run, builder, cs, cpc, media, base,
                   dirExists, unitVars, semVars, joinVars, pb, result, histVars>>

\* The ffmpeg of run r writes the merged video through its descriptor, to
\* the file it opened even when that has been unlinked since, and exits
\* with success.
FfmpegWrite(r) ==
    /\ ff[r].st = "open"
    /\ dir' = [q \in DOMAIN dir |->
                   IF dir[q].id = ff[r].id
                   THEN [id |-> dir[q].id, data |-> <<"merged">>]
                   ELSE dir[q]]
    /\ ff' = [ff EXCEPT ![r] = Exited(r)]
    /\ UNCHANGED <<selVars, remote, conc, run, builder, cs, cpc, media, base,
                   dirExists, unitVars, semVars, joinVars, pb, result, histVars>>

\* The ffmpeg of run r, whose output lies outside the destination directory,
\* exits with success.
FfmpegExit(r) ==
    /\ ff[r].st = "start"
    /\ ~ff[r].inside
    /\ ff' = [ff EXCEPT ![r] = Exited(r)]
    /\ UNCHANGED <<selVars, remote, conc, run, builder, cs, cpc, media, base,
                   dirExists, dir, unitVars, semVars, joinVars, pb, result, histVars>>

\* The ffmpeg of run r exits with a failure before or after it has opened
\* its output, and main is told; what it has created stays.  (An ffmpeg
\* nobody waits for that fails leaves the directory as one that takes no
\* further step.)
FfmpegFail(r) ==
    /\ ff[r].st \in {"start", "open"}
    /\ Waited(r)
    /\ ff' = [ff EXCEPT ![r] = [st |-> "exit", ok |-> FALSE]]
    /\ UNCHANGED <<selVars, remote, conc, run, builder, cs, cpc, media, base,
                   dirExists, dir, unitVars, semVars, joinVars, pb, result, histVars>>

\* The ffmpeg processes, of this run and of earlier ones.
FfmpegStep ==
    \E r \in 1..MaxRuns :
        \/ FfmpegCreate(r)
        \/ FfmpegWrite(r)
        \/ FfmpegExit(r)
        \/ FfmpegFail(r)

\* video.rs 53-58: cmd.output() returns the success of ffmpeg and merge_to
\* returns Ok.
MergeOk ==
    /\ cpc = "merge"
    /\ ff[run] = [st |-> "exit", ok |-> TRUE]
    /\ ff' = [ff EXCEPT ![run] = NoFfmpeg]
    /\ cs' = [st |-> "merged"]
    /\ cpc' = "merged"
    /\ UNCHANGED <<selVars, remote, conc, run, builder, media, base,
                   dirExists, dir, unitVars, semVars, joinVars, pb, result, histVars>>

\* video.rs 53-56 and main.rs 69: ffmpeg cannot be started, or cmd.output()
\* returns its failure; merge_to returns the error and main returns it.
MergeErr ==
    /\ \/ /\ cpc = "ok"
          /\ cs = NoClean
          /\ ff' = ff
       \/ /\ cpc = "merge"
          /\ ff[run] = [st |-> "exit", ok |-> FALSE]
          /\ ff' = [ff EXCEPT ![run] = NoFfmpeg]
    /\ cs' = [st |-> "err"]
    /\ cpc' = "main_ret"
    /\ UNCHANGED <<selVars, remote, conc, run, builder, media, base,
                   dirExists, dir, unitVars, semVars, joinVars, pb, result, histVars>>

\* main.rs 70 and video.rs 102-104: the merge was made, and clean_segment
\* reads and parses the manifest.
CleanSegmentRead ==
    /\ cpc = "merged"
    /\ IF ~Exists(dir, IndexPath) \/ dir[IndexPath].data = <<>>
       THEN /\ cs' = [st |-> "err"]
            /\ cpc' = "main_ret"
       ELSE LET m == dir[IndexPath].data[1]
            IN  IF Len(m) = 0
                THEN /\ cs' = [st |-> "ok"]
                     /\ cpc' = "main_ret"
                ELSE /\ cs' = [st |-> "run", m |-> m, i |-> 1, part |-> "seg"]
                     /\ cpc' = "clean"
    /\ UNCHANGED <<selVars, remote, conc, run, builder, ff, media, base,
                   dirExists, dir, unitVars, semVars, joinVars, pb, result, histVars>>

\* video.rs 107 and 111: remove_file of the segment or key at the position;
\* when the file is not there, clean_segment returns the error.
CleanSegmentRemove ==
    /\ cpc = "clean"
    /\ IF Exists(dir, CleanPath(cs))
       THEN /\ dir' = RemoveFile(dir, CleanPath(cs))
            /\ cs' = CleanAfter(cs.m, cs.i, cs.part)
            /\ cpc' = IF cs'.st = "ok" THEN "main_ret" ELSE "clean"
       ELSE /\ dir' = dir
            /\ cs' = [st |-> "err"]
            /\ cpc' = "main_ret"
    /\ UNCHANGED <<selVars, remote, conc, run, builder, ff, media, base,
                   dirExists, unitVars, semVars, joinVars, pb, result, histVars>>

\* main.rs 62-71, after download has returned Ok.
MainStep ==
    \/ MergeStart
    \/ MergeOk
    \/ MergeErr
    \/ CleanSegmentRead
    \/ CleanSegmentRemove

\* An ffmpeg that is followed once the main that started it is gone: one
\* that has still to create or to write its file in the destination
\* directory.
Orphan(f) == f.st = "open" \/ (f.st = "start" /\ f.inside)

\* The process is terminated abruptly: everything but the directory is lost,
\* and an ffmpeg it has started goes on.  The invocation terminated is one
\* that another can follow.
Crash ==
    /\ Running
    /\ run < MaxRuns
    /\ cpc' = "crashed"
    /\ upc' = [u \in Units |-> "idle"]
    /\ ures' = [u \in Units |-> "none"]
    /\ fd' = [u \in Units |-> <<>>]
    /\ off' = [u \in Units |-> 0]
    /\ permits' = 0
    /\ closed' = FALSE
    /\ joinq' = <<>>
    /\ joined' = 0
    /\ pb' = 0
    /\ result' = NoResult
    /\ waitAtFail' = <<>>
    /\ atClose' = <<>>
    /\ cs' = IF cs = NoClean THEN NoClean ELSE [st |-> "killed"]
    /\ ff' = [r \in 1..MaxRuns |-> IF Orphan(ff[r]) THEN ff[r] ELSE NoFfmpeg]
    /\ UNCHANGED <<selVars, remote, conc, run, builder, media, base, dirExists, dir,
                   mode, past, fetched, snap, prev>>

\* main.rs 46-60: the program is run again on the same directory; the server
\* may serve another playlist by then.
Restart ==
    /\ ~Running
    /\ run < MaxRuns
    /\ run' = run + 1
    /\ remote' \in Versions(remote)
    /\ snap' = dir
    /\ prev' = [ran |-> TRUE, past |-> past, ok |-> (cpc = "ok" \/ cs # NoClean),
                cleaned |-> cs # NoClean, orphan |-> ff # NoProcesses,
                sum |-> Md5(media)]
    /\ cs' = NoClean
    /\ cpc' = "load"
    /\ media' = <<>>
    /\ base' = <<>>
    /\ upc' = [u \in Units |-> "idle"]
    /\ ures' = [u \in Units |-> "none"]
    /\ fd' = [u \in Units |-> <<>>]
    /\ off' = [u \in Units |-> 0]
    /\ permits' = 0
    /\ closed' = FALSE
    /\ joinq' = <<>>
    /\ joined' = 0
    /\ pb' = 0
    /\ result' = NoResult
    /\ mode' = "none"
    /\ past' = FALSE
    /\ fetched' = {}
    /\ waitAtFail' = <<>>
    /\ atClose' = <<>>
    /\ UNCHANGED <<selVars, conc, builder, ff, dirExists, dir>>

NoPrev ==
    [ran |-> FALSE, past |-> FALSE, ok |-> FALSE, cleaned |-> FALSE, orphan |-> FALSE,
     sum |-> Md5(<<>>)]

\* The directory an earlier run for the one-segment playlist "1.ts" has
\* left when it ended before it stored a file: the record alone.
RecordOnly ==
    PutFile(EmptyDir, RecordPath,
            [id |-> <<0, RecordInode>>,
             data |-> <<RecordOf(Md5(<<[uri |-> <<"1.ts">>, key |-> NoKey]>>))>>])

\* An invocation of a downloader built for a playlist of pls and a
\* concurrency in lo..MaxConcurrency, on the destination directory d, which
\* does not exist when d is empty.
StartOn(pls, lo, d) ==
    /\ variants = <<>>
    /\ selected = Pending
    /\ remote \in pls
    /\ conc \in lo..MaxConcurrency
    /\ run = 1
    /\ builder = "ok"
    /\ dirExists = (DOMAIN d # {})
    /\ dir = d
    /\ snap = d
    /\ prev = NoPrev
    /\ FreshProcess

\* The first invocation of a downloader built for a playlist of at most n
\* segments and a concurrency in lo..MaxConcurrency, on a destination
\* directory that does not exist.
InitWith(n, lo) == StartOn(Playlists(n), lo, EmptyDir)

InitRun ==
    \/ InitWith(MaxSegs, 0)
    \/ StartOn(Playlists(MaxSegsRerun), 0, RecordOnly)

\* The first of the repeated invocations: a playlist of RerunPlaylists and
\* a concurrency of at least 1, on a destination directory that does not
\* exist.
Init == StartOn(RerunPlaylists, 1, EmptyDir)

UnitStep(u) ==
    \/ Acquire(u)
    \/ AcquireClosed(u)
    \/ CheckExists(u)
    \/ CheckMissing(u)
    \/ FetchOk(u)
    \/ FetchErr(u)
    \/ Cancel(u)
    \/ CreateTemp(u)
    \/ WriteChunk(u)
    \/ SyncTemp(u)
    \/ RenameOk(u)
    \/ RenameErr(u)
    \/ Finish(u)

CoordinatorStep ==
    \/ LoadOk
    \/ LoadErr
    \/ MakeDir
    \/ CacheCheck
    \/ CleanDir
    \/ RecordCreate
    \/ RecordWrite
    \/ KeyStart
    \/ KeyDone
    \/ Spawn
    \/ JoinNext
    \/ JoinEmpty
    \/ ClosePool
    \/ ReturnErr
    \/ IndexCreate
    \/ IndexWrite

\* One invocation, which may be terminated at any step.
NextRun ==
    \/ CoordinatorStep
    \/ \E u \in Units : UnitStep(u)
    \/ Crash

SpecRun == InitRun /\ [][NextRun]_vars

\* Every playlist of at most MaxSegsRerun segments, and the playlists of
\* at most MaxSegs segments without a key whose URIs are "1.ts" or that of
\* the other host.
LivePlaylists ==
    Playlists(MaxSegsRerun)
    \cup {p \in Playlists(MaxSegs) :
             \A i \in 1..Len(p) :
                 /\ p[i].key = NoKey
                 /\ p[i].uri \in {<<"1.ts">>, <<"http:", "cdn", "2.ts">>}}

InitLive ==
    \/ StartOn(LivePlaylists, 1, EmptyDir)
    \/ StartOn(Playlists(MaxSegsRerun), 1, RecordOnly)

\* One invocation that is not terminated from outside.
NextLive ==
    \/ CoordinatorStep
    \/ \E u \in Units : UnitStep(u)

\* One invocation with a concurrency of at least 1 in which every request
\* is answered and the runtime lets the coordinator and every task that
\* can take a step take one.
SpecLive ==
    /\ InitLive
    /\ [][NextLive]_vars
    /\ WF_vars(CoordinatorStep)
    /\ \A u \in Units : WF_vars(UnitStep(u))

\* Repeated invocations of the program on the same directory.
Next ==
    \/ NextRun
    \/ MainStep
    \/ FfmpegStep
    \/ Restart

Spec == Init /\ [][Next]_vars

\* One invocation on a playlist of RichPlaylists, with some concurrency.
InitManifest ==
    \/ StartOn(RichPlaylists(MaxSegsManifest), 1, EmptyDir)
    \/ StartOn(RichPlaylists(MaxSegsManifest), 1, RecordOnly)

SpecManifest == InitManifest /\ [][NextRun]_vars

\* A master playlist has been parsed; its variants are the input.
InitSelect ==
    /\ variants \in SeqsUpTo(VariantSet, MaxVariants)
    /\ selected = Pending
    /\ remote = <<>>
    /\ conc = 0
    /\ run = 0
    /\ builder = "ok"
    /\ dirExists = FALSE
    /\ dir = EmptyDir
    /\ snap = EmptyDir
    /\ prev = NoPrev
    /\ FreshProcess

\* lib.rs 210-234: choose one variant, or fail with "no stream".
SelectVariant ==
    /\ selected = Pending
    /\ selected' = <<MaxBy(variants)>>
    /\ UNCHANGED <<variants, ld, confVars, cpc, media, base, dirExists, dir, unitVars,
                   semVars, joinVars, pb, result, histVars>>

NextSelect == SelectVariant

SpecSelect == InitSelect /\ [][NextSelect]_vars

(***************************************************************************)
(* Downloader::load_m3u8, the resolver loop (lib.rs 193-247).              *)
(***************************************************************************)
\* The URIs a master playlist gives its variants: relative, relative in a
\* sub-directory, absolute.
VariantURIs == {<<"lo.m3u8">>, <<"hi", "v.m3u8">>, <<"http:", "cdn", "v.m3u8">>}

\* A variant URI that Url::join rejects: an absolute URL with an empty host.
BadURI == <<"http:", "">>

\* A VariantStream with its URI; one stream has the URI that does not join.
StreamSet ==
    [uri : VariantURIs, resolution : {NoRes, <<1, 1>>}, bandwidth : 1..MaxBandwidth]
    \cup {[uri |-> BadURI, resolution |-> NoRes, bandwidth |-> MaxBandwidth]}

\* What a fetch can give: a master playlist, a media playlist, or an error
\* (the request fails or the bytes do not parse).  After MaxChain master
\* playlists the server serves no further master.
Responses(masters) ==
    {[kind |-> "error"]}
    \cup {[kind |-> "media", body |-> p] : p \in Playlists(1)}
    \cup (IF masters < MaxChain
          THEN {[kind |-> "master", body |-> v] : v \in SeqsUpTo(StreamSet, MaxChainVariants)}
          ELSE {})

\* A mutant of LoadJoin: every variant URI is resolved against the target.
LoadJoinFromTarget(uri, ref) == IF ref[1] = "http:" THEN ref ELSE UrlJoin(Target, ref)

\* lib.rs 223, uri.join(&stream.uri): an absolute reference replaces the
\* URL, a relative one is resolved against it.
LoadJoin(uri, ref) == IF ref[1] = "http:" THEN ref ELSE UrlJoin(uri, ref)

\* lib.rs 223 and 229-231: uri.join gives Err.
JoinFails(ref) == ref = BadURI

\* lib.rs 200-203: result is None, the playlist at uri is fetched and parsed.
ResolveFetch ==
    /\ cpc = "load"
    /\ ld.pc = "loop"
    /\ ld.res = <<>>
    /\ \E r \in Responses(Len(ld.resps)) :
          /\ r.kind # "error"
          /\ ld' = [ld EXCEPT !.res = <<r>>,
                              !.fetches = Append(ld.fetches, ld.uri),
                              !.resps = Append(ld.resps, r)]
    /\ UNCHANGED <<variants, selected, confVars, cpc, media, base, dirExists, dir,
                   unitVars, semVars, joinVars, pb, result, histVars>>

\* lib.rs 200 and 205-207: the request fails, or the bytes do not parse.
ResolveFetchErr ==
    /\ cpc = "load"
    /\ ld.pc = "loop"
    /\ ld.res = <<>>
    /\ ld' = [ld EXCEPT !.pc = "done",
                        !.fetches = Append(ld.fetches, ld.uri),
                        !.out = [st |-> "err"]]
    /\ UNCHANGED <<variants, selected, confVars, cpc, media, base, dirExists, dir,
                   unitVars, semVars, joinVars, pb, result, histVars>>

\* lib.rs 210-234: a master playlist; the chosen variant's URI is joined to
\* the current URL and the loop goes on; with no variant, or a URI that
\* does not join, the error is returned.
ResolveMaster ==
    /\ cpc = "load"
    /\ ld.pc = "loop"
    /\ ld.res # <<>>
    /\ ld.res[1].kind = "master"
    /\ LET vs == ld.res[1].body
           one == MaxBy(vs)
       IN  IF one = 0 \/ JoinFails(vs[one].uri)
           THEN ld' = [ld EXCEPT !.pc = "done", !.res = <<>>, !.out = [st |-> "err"]]
           ELSE ld' = [ld EXCEPT !.res = <<>>, !.uri = LoadJoin(ld.uri, vs[one].uri)]
    /\ UNCHANGED <<variants, selected, confVars, cpc, media, base, dirExists, dir,
                   unitVars, semVars, joinVars, pb, result, histVars>>

\* lib.rs 236-244: a media playlist; its checksum is taken over the bytes
\* just fetched, its base URL is set, and it is returned.
ResolveMedia ==
    /\ cpc = "load"
    /\ ld.pc = "loop"
    /\ ld.res # <<>>
    /\ ld.res[1].kind = "media"
    /\ ld' = [ld EXCEPT !.pc = "done",
                        !.res = <<>>,
                        !.nbase = ld.nbase + 1,
                        !.out = [st |-> "ok", media |-> ld.res[1].body,
                                 base |-> <<ld.uri>>, sum |-> Md5(ld.res[1].body)]]
    /\ UNCHANGED <<variants, selected, confVars, cpc, media, base, dirExists, dir,
                   unitVars, semVars, joinVars, pb, result, histVars>>

NextLoad ==
    \/ ResolveFetch
    \/ ResolveFetchErr
    \/ ResolveMaster
    \/ ResolveMedia

\* A downloader on which download has just been called.
InitLoad ==
    /\ variants = <<>>
    /\ selected = Pending
    /\ remote = <<>>
    /\ conc = 1
    /\ run = 1
    /\ builder = "ok"
    /\ dirExists = FALSE
    /\ dir = EmptyDir
    /\ snap = EmptyDir
    /\ prev = NoPrev
    /\ FreshProcess

\* load_m3u8 alone.  Every request is answered, and the loop is not starved.
SpecLoad == InitLoad /\ [][NextLoad]_vars /\ WF_vars(NextLoad)

(***************************************************************************)
(* DownloaderBuilder::download and the start of Downloader::download with   *)
(* the resolver loop in it, up to the record of a cache miss.               *)
(***************************************************************************)
\* The directory an earlier successful run for the one-segment playlist
\* "1.ts" has left: the record, the segment file and the manifest.
LeftBehind ==
    LET pl == <<[uri |-> <<"1.ts">>, key |-> NoKey]>>
        url == FormatUrl(<<Target>>, pl[1].uri)
    IN  PutFile(PutFile(PutFile(EmptyDir,
            RecordPath, [id |-> <<0, RecordInode>>, data |-> <<RecordOf(Md5(pl))>>]),
            SavePath(url), [id |-> <<0, 1>>, data |-> Bytes(url)]),
            IndexPath, [id |-> <<0, IndexInode>>, data |-> <<Manifest(pl)>>])

\* lib.rs 154-178, DownloaderBuilder::download: a builder in the error
\* state returns its error; otherwise the Downloader is made and its
\* download is called.
BuilderDownload ==
    /\ cpc = "build"
    /\ IF builder = "err"
       THEN /\ cpc' = "err"
            /\ result' = [st |-> "builder_err", unit |-> 0]
       ELSE /\ cpc' = "load"
            /\ result' = result
    /\ UNCHANGED <<selVars, confVars, media, base, dirExists, dir, unitVars, semVars,
                   joinVars, pb, histVars>>

\* A mutant of ResolvedErr: the directory is created before the error of
\* the resolution is returned.
ResolvedErrAfterMkdir ==
    /\ cpc = "load"
    /\ ld.pc = "done"
    /\ ld.out.st = "err"
    /\ dirExists' = TRUE
    /\ cpc' = "err"
    /\ result' = [st |-> "load_err", unit |-> 0]
    /\ UNCHANGED <<selVars, confVars, media, base, dir, unitVars, semVars,
                   joinVars, pb, histVars>>

\* lib.rs 272: load_m3u8 has returned Err, and "?" returns it.
ResolvedErr ==
    /\ ld.pc = "done"
    /\ ld.out.st = "err"
    /\ LoadErr

\* lib.rs 272: load_m3u8 has returned the media playlist.
ResolvedOk ==
    /\ cpc = "load"
    /\ ld.pc = "done"
    /\ ld.out.st = "ok"
    /\ media' = ld.out.media
    /\ base' = ld.out.base
    /\ cpc' = "mkdir"
    /\ UNCHANGED <<selVars, confVars, dirExists, dir, unitVars, semVars, joinVars,
                   pb, result, histVars>>

\* A builder, in the error state or not, on which download is called; the
\* destination directory does not exist, or is the one an earlier run left.
InitResolve ==
    /\ variants = <<>>
    /\ selected = Pending
    /\ remote = <<>>
    /\ conc = 1
    /\ run = 1
    /\ builder \in {"ok", "err"}
    /\ dirExists \in BOOLEAN
    /\ dir = IF dirExists THEN LeftBehind ELSE EmptyDir
    /\ snap = dir
    /\ prev = NoPrev
    /\ ld = LoadEntry
    /\ cs = NoClean
    /\ ff = NoProcesses
    /\ cpc = "build"
    /\ media = <<>>
    /\ base = <<>>
    /\ upc = [u \in Units |-> "idle"]
    /\ ures = [u \in Units |-> "none"]
    /\ fd = [u \in Units |-> <<>>]
    /\ off = [u \in Units |-> 0]
    /\ permits = 0
    /\ closed = FALSE
    /\ joinq = <<>>
    /\ joined = 0
    /\ pb = 0
    /\ result = NoResult
    /\ mode = "none"
    /\ past = FALSE
    /\ fetched = {}
    /\ waitAtFail = <<>>
    /\ atClose = <<>>

NextResolve ==
    \/ BuilderDownload
    \/ NextLoad
    \/ ResolvedErr
    \/ ResolvedOk
    \/ MakeDir
    \/ CacheCheck
    \/ CleanDir
    \/ RecordCreate
    \/ RecordWrite

SpecResolve == InitResolve /\ [][NextResolve]_vars

(***************************************************************************)
(* Properties.                                                             *)
(***************************************************************************)
\* The semaphore of this invocation exists.
PoolCreated ==
    \/ cpc \in {"join", "close", "ret_err", "idx_create", "idx_write", "ok"}
    \/ cpc = "err" /\ result.st = "err" /\ result.unit # KeyUnit

\* The segment units holding a permit.
Held == {u \in SegUnits : InFlight(u)}

\* C1: the units holding a permit are never more than max_download_concurrency,
\* and while the pool is open the permits held and the permits available add
\* up to it: a permit is taken before the fetch and given back at every return.
C1_PermitsBounded ==
    PoolCreated =>
        /\ Cardinality(Held) <= conc
        /\ permits >= 0
        /\ ~closed => Cardinality(Held) + permits = conc

\* C1 witness: every permit is held, a unit is waiting, and a unit that failed
\* has given its permit back.
C1_Witness ==
    /\ PoolCreated
    /\ conc >= 1
    /\ Cardinality(Held) = conc
    /\ \E u \in SegUnits : upc[u] = "wait"
    /\ \E u \in SegUnits : upc[u] = "ret" /\ ures[u] = "err"

\* The first task, in the order in which the tasks were marked finished,
\* that returned an error; 0 if none.
RECURSIVE FirstErrFrom(_)
FirstErrFrom(i) ==
    IF i > Len(joinq) THEN 0
    ELSE IF ures[joinq[i]] = "err" THEN joinq[i] ELSE FirstErrFrom(i + 1)

\* C2: download never returns Ok when a segment unit returned an error, the
\* error it returns is the first in completion order, and once the pool is
\* closed a waiting task only leaves the wait by returning or being
\* cancelled (unless the whole process is killed): it takes no permit, sends
\* no request, writes no file and does not advance the progress bar.
C2_FailFast ==
    /\ [](result.st = "ok" => \A u \in SegUnits : ures[u] # "err")
    /\ []((result.st \in {"pending_err", "err"} /\ result.unit # KeyUnit) =>
             result.unit = FirstErrFrom(1))
    /\ [][\A u \in SegUnits :
            (closed /\ upc[u] = "wait" /\ upc'[u] # "wait" /\ cpc' \notin {"crashed", "load"}) =>
                /\ upc'[u] \in {"ret", "abort"}
                /\ u \notin fetched'
                /\ (upc'[u] = "ret" => (permits' = permits /\ dir' = dir /\ pb' = pb))]_vars

\* C2 witness: download has returned the error and a task that was waiting
\* has returned on the closed pool.
C2_Witness ==
    /\ result.st = "err"
    /\ result.unit # KeyUnit
    /\ closed
    /\ \E u \in SegUnits : upc[u] = "ret" /\ ures[u] = "closed"

\* C3, as the specification states it: a unit that was still waiting for a
\* permit when the first unit failed never sends its request.  It does not
\* hold: the failed unit gives its permit back before the coordinator closes
\* the pool, and a waiting unit can take it.
C3_NoFetchAfterFirstFailure ==
    waitAtFail # <<>> => waitAtFail[1] \cap fetched = {}

\* C3, amended: a unit that was still waiting for a permit when the
\* coordinator closed the pool never takes one and never sends its request,
\* so only the units in flight at the close, at most conc of them, can
\* complete after it.
C3_NoFetchAfterClose ==
    atClose # <<>> =>
        /\ Cardinality(atClose[1].held) <= conc
        /\ \A u \in atClose[1].waiting :
              /\ u \notin fetched
              /\ upc[u] \in {"wait", "ret", "abort"}
              /\ upc[u] = "ret" => ures[u] = "closed"
        /\ \A u \in SegUnits : InFlight(u) => u \in atClose[1].held

\* C3 witness: after the close, a unit that took the failed unit's permit
\* before the close has completed, and a unit that was waiting at the close
\* has returned without downloading.
C3_Witness ==
    /\ atClose # <<>>
    /\ waitAtFail # <<>>
    /\ \E u \in atClose[1].held \cap waitAtFail[1] : upc[u] = "ret" /\ ures[u] = "ok"
    /\ \E u \in atClose[1].waiting : upc[u] = "ret"

\* The units of the resolved playlist: its segments, and the key if any.
MediaUnits == SegUnits \cup (IF KeyUrl(base, media) = <<>> THEN {} ELSE {KeyUnit})

Loaded == base # <<>>

\* C4: a file at the final path of a unit holds the complete bytes fetched
\* for a unit of that path, in every state (a crash leaves the directory as
\* it is).  It does not hold when two units share a destination path: they
\* share the temporary path too, and one truncates the file the other is
\* about to rename.
C4_FinalFileComplete ==
    Loaded =>
        \A u \in MediaUnits :
            Exists(dir, FinalPath(u)) =>
                \E v \in MediaUnits :
                    /\ FinalPath(v) = FinalPath(u)
                    /\ dir[FinalPath(u)].data = Bytes(UnitUri(v))

\* The run is on the miss path of the match on the record.
Missed == mode \in {"miss", "wiped", "kept"}

\* On the miss path, the removal of clean_dir is over: it has failed and
\* left entries, or it has left none and clean_dir has returned.
Cleaned == mode \in {"wiped", "kept"}

\* clean_dir has returned, and its removal had left the directory empty.
Wiped == mode = "wiped"

\* The directory held, when this run started, a record that does not match
\* the resolved playlist: none, an unreadable one, or another checksum.
StaleAtStart == Loaded /\ ~RecordMatches(snap, Md5(media))

\* C5: a run that finds no matching record wipes the directory as a whole:
\* once the record has been looked at, the run is on the miss path and goes
\* on to the wipe instead of returning an error; once the removal of
\* clean_dir is over, no file that was in the directory before the run is
\* left in it; and when the run returns Ok, every segment has been fetched
\* by this run.
C5_MissWipesAll ==
    (StaleAtStart /\ mode # "none") =>
        /\ Missed
        /\ cpc \in {"wipe", "wipe_mkdir", "rec_create", "rec_write"} => result = NoResult
        /\ Cleaned => \A p \in DOMAIN dir \cap DOMAIN snap : dir[p].id # snap[p].id
        /\ result.st = "ok" => SegUnits \subseteq fetched

\* main has not gone on from download to merge_to and clean_segment.
NotCleaning == cs = NoClean

\* The previous run returned Ok, the directory is as it left it (the program
\* did not go on to merge_to and clean_segment, and no ffmpeg an earlier
\* run had started was still running when this run began), and the playlist
\* is unchanged.
UnchangedAfterOk ==
    /\ Loaded
    /\ prev.ran
    /\ prev.ok
    /\ ~prev.cleaned
    /\ ~prev.orphan
    /\ prev.sum = Md5(media)

\* C6: after a successful run, a run of download on the unchanged playlist
\* and on the directory as that run left it is a cache hit that sends no
\* request (every unit finds its file), does not wipe the directory or
\* rewrite the record, changes no key or segment file, and leaves the
\* directory as it found it when it returns.
C6_Idempotent ==
    UnchangedAfterOk =>
        /\ ~Missed
        /\ fetched = {}
        /\ \A u \in MediaUnits : upc[u] \in {"exit", "ret"} => ures[u] = "ok"
        /\ result.st # "err"
        /\ NotCleaning =>
              /\ DOMAIN dir = DOMAIN snap
              /\ \A p \in DOMAIN snap \ {IndexPath} : dir[p] = snap[p]
              /\ result.st = "ok" => dir = snap

\* C6 witness: the second run on an unchanged playlist with a key and
\* segments has returned Ok.
C6_Witness ==
    /\ UnchangedAfterOk
    /\ result.st = "ok"
    /\ KeyUnit \in MediaUnits
    /\ Len(media) > 1

\* The previous run got as far as the downloads (its record was on disk) and
\* did not return Ok, and the playlist is unchanged.
ResumeAfterFailure == Loaded /\ prev.ran /\ prev.past /\ ~prev.ok /\ prev.sum = Md5(media)

\* C7: once a run has its record on disk the record stays, and the file of a
\* unit that returned Ok stays, whatever fails afterwards in download; the
\* next run on the unchanged playlist is a cache hit that keeps every file
\* completed before,
\* sends requests only for files that were missing, and has fetched every
\* missing segment file when it returns Ok.
C7_Resume ==
    /\ (Loaded /\ past) => RecordMatches(dir, Md5(media))
    /\ NotCleaning => \A u \in Units : ures[u] = "ok" => Exists(dir, FinalPath(u))
    /\ ResumeAfterFailure =>
          /\ ~Missed
          /\ \A u \in fetched : ~Exists(snap, FinalPath(u))
          /\ \A u \in MediaUnits :
                (NotCleaning /\ Exists(snap, FinalPath(u))) =>
                    (Exists(dir, FinalPath(u)) /\ dir[FinalPath(u)] = snap[FinalPath(u)])
          /\ result.st = "ok" =>
                \A u \in SegUnits :
                    ~Exists(snap, FinalPath(u)) =>
                        \E v \in fetched : FinalPath(v) = FinalPath(u)

\* C7 witness: the run after a failed or interrupted one found one segment
\* file in place, fetched another, and has returned Ok.
C7_Witness ==
    /\ ResumeAfterFailure
    /\ \E u \in SegUnits : Exists(snap, FinalPath(u))
    /\ \E u \in SegUnits : u \in fetched
    /\ result.st = "ok"

\* C8: download returns Ok only when the file of every segment, and of the
\* key if there is one, exists and the rewritten manifest has been written:
\* they are there when it has returned Ok, until main goes on to merge_to.
C8_OkMeansComplete ==
    (result.st = "ok" /\ NotCleaning) =>
        /\ \A u \in MediaUnits : Exists(dir, FinalPath(u))
        /\ Exists(dir, IndexPath)
        /\ dir[IndexPath].data = <<Manifest(media)>>

\* C8 witness: download has returned Ok for a playlist with a key and two
\* segments of different file names.
C8_Witness ==
    /\ result.st = "ok"
    /\ KeyUnit \in MediaUnits
    /\ \E u, v \in SegUnits : FinalPath(u) # FinalPath(v)

AllHaveResolution == \A i \in 1..Len(variants) : variants[i].resolution # NoRes

Chosen == variants[selected[1]]

\* C9: when every variant declares a resolution, the chosen variant has the
\* greatest resolution and, among the variants of that resolution, the
\* highest bandwidth.  It does not hold for <<1080p bw 2, 1080p bw 1>>:
\* the comparator returns Equal and max_by keeps the last of the two.
C9_GreatestResolutionThenBandwidth ==
    (selected # Pending /\ selected # <<0>> /\ AllHaveResolution) =>
        /\ \A i \in 1..Len(variants) :
              CmpResolution(variants[i].resolution, Chosen.resolution) # "Greater"
        /\ \A i \in 1..Len(variants) :
              variants[i].resolution = Chosen.resolution =>
                  variants[i].bandwidth <= Chosen.bandwidth

\* C10: when some variant declares no resolution, the chosen variant has the
\* greatest bandwidth of all variants.  It does not hold: the comparator
\* falls back to bandwidth pair by pair, not for the whole list, and two
\* variants that both declare a resolution are compared by resolution.
C10_GreatestBandwidth ==
    (selected # Pending /\ selected # <<0>> /\ ~AllHaveResolution) =>
        \A i \in 1..Len(variants) : variants[i].bandwidth <= Chosen.bandwidth

\* The segment units whose download_m3u8_part returned Ok.
Succeeded == {u \in SegUnits : upc[u] \in {"exit", "ret"} /\ ures[u] = "ok"}

\* C11: the progress position is the number of segment units that returned
\* success, one for each, so it never exceeds the number of segments and
\* equals it when download returns Ok; within one process it changes only
\* by one increment at the step in which a segment unit returns success,
\* never when a unit fails or returns on the closed pool.
C11_ProgressCount ==
    /\ [](pb = Cardinality(Succeeded))
    /\ [](pb <= Len(media))
    /\ [](result.st = "ok" => pb = Len(media))
    /\ [][(pb' # pb /\ cpc' \notin {"crashed", "load"}) =>
            /\ pb' = pb + 1
            /\ \E u \in SegUnits :
                  /\ upc[u] \notin {"exit", "ret"}
                  /\ upc'[u] = "exit"
                  /\ ures'[u] = "ok"]_vars

\* C11 witness: download has returned Ok for two segments or more, one of
\* which was skipped because its file was already there.
C11_Witness ==
    /\ result.st = "ok"
    /\ Len(media) >= 2
    /\ pb = Len(media)
    /\ \E u \in SegUnits : u \notin fetched

\* C12: when download has returned Ok, the local manifest lists the segments
\* of the resolved playlist in their order with every segment URI and key
\* URI replaced by its basename, and each of these names is the name of the
\* file in which download_m3u8_part stored that segment or key.  It does
\* not hold: the file is named after the joined, percent-encoded URL and
\* the manifest after the URI as written in the playlist, and only the key
\* of the first segment is downloaded.
C12_ManifestNamesStoredFiles ==
    result.st = "ok" =>
        LET m == dir[IndexPath].data[1]
        IN  /\ Len(m) = Len(media)
            /\ \A i \in 1..Len(media) :
                  /\ m[i].uri = Basename(media[i].uri)
                  /\ <<m[i].uri>> = FinalPath(i)
                  /\ Exists(dir, <<m[i].uri>>)
                  /\ media[i].key = NoKey => m[i].key = NoKey
                  /\ media[i].key # NoKey =>
                        /\ m[i].key = <<Basename(media[i].key[1])>>
                        /\ Exists(dir, <<m[i].key[1]>>)

\* This run has begun to download: a unit has started, a request has been
\* sent, or a file other than the record has been created by this run.
DownloadsBegun ==
    \/ fetched # {}
    \/ \E u \in Units : upc[u] # "idle"
    \/ \E p \in DOMAIN dir \ {RecordPath} : dir[p].id[1] = run

SegmentsBegun ==
    \/ \E u \in SegUnits : upc[u] # "idle"
    \/ fetched \cap SegUnits # {}

\* C14: when the first segment names a key, the key is downloaded alone:
\* while its unit runs no segment task exists, and once a segment task
\* exists or a segment request has been sent the key unit has returned Ok
\* and its file is in place; when the key download fails, download returns
\* that error and no segment task is spawned and no segment fetched.
C14_KeyBeforeSegments ==
    (Loaded /\ KeyUnit \in MediaUnits) =>
        /\ InFlight(KeyUnit) => ~SegmentsBegun
        /\ cpc \in {"key", "keywait"} => ~SegmentsBegun
        /\ SegmentsBegun =>
              /\ Exists(dir, FinalPath(KeyUnit))
              /\ cpc # "crashed" => (upc[KeyUnit] = "ret" /\ ures[KeyUnit] = "ok")
        /\ ures[KeyUnit] = "err" =>
              /\ ~SegmentsBegun
              /\ cpc \in {"keywait", "err"}
              /\ cpc = "err" => result = [st |-> "err", unit |-> KeyUnit]

\* C14 witness: the key was fetched and stored, and then two segments were
\* fetched.
C14_Witness ==
    /\ KeyUnit \in MediaUnits
    /\ KeyUnit \in fetched
    /\ ures[KeyUnit] = "ok"
    /\ Cardinality(fetched \cap SegUnits) >= 2
    /\ result.st = "ok"

\* C15: when download has returned the error of a segment task, every
\* segment task has returned, none was cancelled and none is still
\* fetching or writing.  It does not hold: download returns as soon as
\* join_next hands it the first error, and dropping the JoinSet aborts the
\* tasks that are waiting or fetching, while a task inside save_bytes goes
\* on writing after the return.
C15_DrainBeforeError ==
    (result.st = "err" /\ result.unit # KeyUnit) =>
        \A u \in SegUnits :
            /\ ~InFlight(u)
            /\ u \in atClose[1].held => upc[u] \in {"exit", "ret"}

\* The segment units that share their destination path with u.
SamePath(u) == {v \in SegUnits : FinalPath(v) = FinalPath(u)}

\* u is one of several units of the same URI, and no unit of another URI
\* has its destination path.
Duplicated(u) ==
    /\ \E v \in SegUnits : v # u /\ UnitUri(v) = UnitUri(u)
    /\ \A v \in SamePath(u) : UnitUri(v) = UnitUri(u)

\* C16: a unit of a URI that occurs more than once returns Ok whenever its
\* fetch gave it the bytes (it wrote them all), the file at the shared
\* destination path holds the complete bytes whenever it exists, and the
\* batch fails only with the error of a fetch.  It does not hold: the units
\* share the temporary path, so the rename of the second finds it gone and
\* fails, or moves a file the other has just truncated.
C16_DuplicatesBenign ==
    Loaded =>
        /\ \A u \in SegUnits :
              Duplicated(u) =>
                  /\ (upc[u] = "ret" /\ off[u] = NChunks) => ures[u] = "ok"
                  /\ Exists(dir, FinalPath(u)) =>
                        dir[FinalPath(u)].data = Bytes(UnitUri(u))
        /\ (result.st = "err" /\ result.unit # KeyUnit /\ Duplicated(result.unit)) =>
              off[result.unit] = 0

\* C17: units of different URIs have different destination paths and
\* different temporary paths, and on an empty directory a unit returns
\* without a request only when a unit of the same URI has fetched.  It does
\* not hold: the path is the last component of the URI alone, so
\* "1.ts" and "a/1.ts" are stored in the same file.
C17_DistinctPaths ==
    Loaded =>
        /\ \A u, v \in MediaUnits :
              UnitUri(u) # UnitUri(v) =>
                  (FinalPath(u) # FinalPath(v) /\ TempPath(u) # TempPath(v))
        /\ \A u \in SegUnits :
              (upc[u] = "ret" /\ ures[u] = "ok" /\ u \notin fetched) =>
                  \E v \in fetched : UnitUri(v) = UnitUri(u)

\* The variant load_m3u8 chose in the i-th playlist it received.
ChosenStream(i) == ld.resps[i].body[MaxBy(ld.resps[i].body)]

\* The reference ref resolved against the URL from.
ResolvedAgainst(from, ref) == IF ref[1] = "http:" THEN ref ELSE UrlJoin(from, ref)

\* What holds of a load_m3u8 that returned a media playlist.
ResolvedRight ==
    LET n == Len(ld.fetches)
    IN  /\ n = Len(ld.resps)
        /\ ld.resps[n].kind = "media"
        /\ \A i \in 1..(n - 1) : ld.resps[i].kind = "master"
        /\ ld.fetches[1] = Target
        /\ \A i \in 1..(n - 1) :
              ld.fetches[i + 1] = ResolvedAgainst(ld.fetches[i], ChosenStream(i).uri)
        /\ ld.out.media = ld.resps[n].body
        /\ ld.out.base = <<ld.fetches[n]>>
        /\ ld.nbase = 1
        /\ ld.out.sum = Md5(ld.resps[n].body)

\* C18: load_m3u8 returns; when it returns a media playlist it has fetched
\* each playlist of the chain once, each URL after the first being the
\* chosen variant's URI joined to the URL before it, the playlist returned
\* is the last one fetched, its base URL was set once, to the last URL
\* fetched, and its checksum is that of the last bytes fetched; the base
\* URL is not set before.
C18_ResolverResult ==
    /\ [](ld.out.st = "ok" => ResolvedRight)
    /\ [](ld.pc # "done" => ld.nbase = 0)
    /\ [](ld.res # <<>> => Len(ld.fetches) = Len(ld.resps))
    /\ <>(ld.pc = "done")

\* C18 witness: a media playlist was returned after two master playlists,
\* the second reached through a relative URI in a sub-directory and
\* naming its variant by a relative URI.
C18_Witness ==
    /\ ld.out.st = "ok"
    /\ Len(ld.fetches) = 3
    /\ Len(ld.fetches[2]) = 4
    /\ Len(ld.fetches[3]) = 4
    /\ Len(ld.out.media) > 0

\* C19: with a concurrency of at least 1, download returns: Ok once every
\* segment task has been joined, or the first error; and from some moment
\* on no task is waiting for a permit.
C19_BatchTerminates ==
    /\ <>(cpc \in {"ok", "err"})
    /\ <>[](\A u \in Units : upc[u] # "wait")
    /\ [](cpc = "ok" => (joined = Len(media) /\ \A u \in SegUnits : upc[u] = "ret"))
    /\ []((cpc = "err" /\ result.st = "err" /\ result.unit # KeyUnit) =>
             result.unit = FirstErrFrom(1))

\* C19 witness: download has returned Ok for more segments than there are
\* permits, each of them fetched.
C19_Witness ==
    /\ cpc = "ok"
    /\ conc >= 1
    /\ Len(media) > conc
    /\ SegUnits \subseteq fetched

\* C20: with max_download_concurrency 0 and at least one segment, the batch
\* stalls: no segment task leaves the wait for a permit, no segment
\* request is sent, the pool is not closed, the coordinator does not get
\* past join_next, and download returns nothing after it has spawned the
\* tasks (it can only have returned before, with the error of the
\* resolution or of the key); at join_next no step of the program is
\* possible.
C20_ZeroConcurrencyStalls ==
    (conc = 0 /\ Loaded /\ Len(media) >= 1) =>
        /\ \A u \in SegUnits : upc[u] \in {"idle", "wait"}
        /\ fetched \cap SegUnits = {}
        /\ permits = 0
        /\ ~closed
        /\ joinq = <<>>
        /\ cpc \notin {"close", "ret_err", "idx_create", "idx_write", "ok"}
        /\ cpc = "err" => (result.unit = KeyUnit /\ \A u \in SegUnits : upc[u] = "idle")
        /\ cpc = "join" => (result = NoResult /\ ~ENABLED NextLive)

\* C20 witness: with no permit, the key has been stored, two segment tasks
\* have been spawned and wait, and the coordinator is at join_next.
C20_Witness ==
    /\ conc = 0
    /\ cpc = "join"
    /\ Len(media) >= 2
    /\ KeyUnit \in fetched
    /\ \A u \in SegUnits : upc[u] = "wait"

\* The destination directory is as it was when download was called: it
\* exists or not as before, with the same files of the same content.
Untouched == dir = snap /\ dirExists = (snap # EmptyDir)

\* C21: until the playlist is resolved the destination directory is not
\* touched, so when download returns the error of the resolution (a failed
\* fetch, bytes that do not parse, a master playlist without variants, a
\* variant URI that does not join) the directory, its record and its files
\* are as before and no cache decision was taken; download returns an
\* error at this stage whenever the resolution failed; and a builder in
\* the error state returns its error without a fetch and without touching
\* the directory.
C21_FailureLeavesDirUntouched ==
    /\ cpc \in {"build", "load"} => Untouched
    /\ result.st \in {"load_err", "builder_err"} =>
          (Untouched /\ cpc = "err" /\ mode = "none" /\ ~past /\ media = <<>>)
    /\ ld.out.st = "err" => cpc \in {"load", "err"}
    /\ cpc = "err" => result.st = (IF builder = "err" THEN "builder_err" ELSE "load_err")
    /\ builder = "err" => (ld = LoadEntry /\ cpc \in {"build", "err"})

\* C21 witness: on the directory of an earlier run, the resolution has
\* failed after a master playlist was followed, and download has returned
\* that error.
C21_Witness ==
    /\ result.st = "load_err"
    /\ snap = LeftBehind
    /\ Len(ld.fetches) = 2
    /\ Len(ld.resps) = 2
    /\ ld.resps[2].kind = "master"

=============================================================================
